---- MODULE Spec2Model ----
(***************************************************************************)
(* Model of the GOP utterance-scoring scripts of                           *)
(* kaldi/egs/gop_speechocean762/s5/local:                                  *)
(*   aggregate_utterance_scores.py  (keyed-posterior records -> table)     *)
(*   aggregate_ml_scores.py         (flat phone-score lines  -> table)     *)
(*   compute_pronunciation_score.py (utterance table -> 0-100 report)      *)
(*                                                                         *)
(* Text is modelled as sequences of ASCII codes, so that strip, split,     *)
(* join, float(), int() and the lexicographic sort act on characters.      *)
(* Numbers are exact rationals [num, den] in lowest terms (den > 0); the   *)
(* %.4f / %.2f rendering of a number on output is not modelled: an output  *)
(* row holds the exact value that is rendered, and np.std is held as its   *)
(* radicand (the population variance).                                     *)
(***************************************************************************)
EXTENDS Integers, Sequences, FiniteSets, TLC

VARIABLES
    prog,             \* which script this run executes
    pc,               \* position of the run: "read", "write", "done", "failed"
    method,           \* args.method
    baseline,         \* args.baseline (None when absent)
    min_score,        \* args.min_score
    max_score,        \* args.max_score
    input,            \* the input file: lines (flat format) or records (posteriors)
    pos,              \* number of input lines / records consumed
    results,          \* compute_pronunciation_score.py: results list
    utterance_scores, \* aggregate_ml_scores.py: utt_id -> list of scores
    scores,           \* aggregate_utterance_scores.py: key -> summary dict
    todo,             \* the keys / results the write loop has still to visit
    out               \* rows written to the output so far

vars == <<prog, pc, method, baseline, min_score, max_score, input, pos,
          results, utterance_scores, scores, todo, out>>

(***************************************************************************)
(* Bounds of the model.                                                    *)
(***************************************************************************)
MaxScoreLines == 2

MaxPhoneLines == 3

MaxRecords == 3

\* Python's None, and the exceptions a computation can raise instead of a value
None == [none |-> TRUE]

ValueError == [raised |-> "ValueError"]

ZeroDivisionError == [raised |-> "ZeroDivisionError"]

(***************************************************************************)
(* Exact rational arithmetic (the scripts' float arithmetic).              *)
(***************************************************************************)
Abs(n) == IF n < 0 THEN -n ELSE n

RECURSIVE GCD(_, _)
GCD(a, b) == IF b = 0 THEN a ELSE GCD(b, a % b)

Rat(n, d) ==
    LET s == IF d < 0 THEN -1 ELSE 1
        g == GCD(Abs(n), Abs(d))
    IN  [num |-> (s * n) \div g, den |-> (s * d) \div g]

R(n) == [num |-> n, den |-> 1]

RAdd(a, b) == Rat(a.num * b.den + b.num * a.den, a.den * b.den)

RSub(a, b) == Rat(a.num * b.den - b.num * a.den, a.den * b.den)

RMul(a, b) == Rat(a.num * b.num, a.den * b.den)

RDiv(a, b) == Rat(a.num * b.den, a.den * b.num)

RLe(a, b) == a.num * b.den <= b.num * a.den

RLt(a, b) == a.num * b.den < b.num * a.den

RGe(a, b) == RLe(b, a)

RMin(a, b) == IF RLe(a, b) THEN a ELSE b

RMax(a, b) == IF RGe(a, b) THEN a ELSE b

RAbs(a) == [num |-> Abs(a.num), den |-> a.den]

(***************************************************************************)
(* Python string operations.  A string is a sequence of one-character      *)
(* strings: "utt1" is <<"u", "t", "t", "1">>.                              *)
(***************************************************************************)
TAB == <<"\t">>

DOT == <<".">>

NL == <<"\n">>

Digits == {"0", "1", "2", "3", "4", "5", "6", "7", "8", "9"}

\* ord(c) for the characters the inputs are written in
Ord ==
    [c \in Digits \cup {"\t", "\n", "\r", " ", "+", "-", ".", "a", "b", "t", "u", "x"} |->
        CASE c = "\t" -> 9  [] c = "\n" -> 10 [] c = "\r" -> 13 [] c = " " -> 32
          [] c = "+" -> 43  [] c = "-" -> 45  [] c = "." -> 46
          [] c = "0" -> 48  [] c = "1" -> 49  [] c = "2" -> 50  [] c = "3" -> 51
          [] c = "4" -> 52  [] c = "5" -> 53  [] c = "6" -> 54  [] c = "7" -> 55
          [] c = "8" -> 56  [] c = "9" -> 57
          [] c = "a" -> 97  [] c = "b" -> 98  [] c = "t" -> 116 [] c = "u" -> 117
          [] c = "x" -> 120]

IsSpace(c) == c \in {" ", "\t", "\n", "\r"}

IsDigit(c) == c \in Digits

RECURSIVE LStrip(_)
LStrip(s) == IF s # <<>> /\ IsSpace(Head(s)) THEN LStrip(Tail(s)) ELSE s

RECURSIVE RStrip(_)
RStrip(s) ==
    IF s # <<>> /\ IsSpace(s[Len(s)]) THEN RStrip(SubSeq(s, 1, Len(s) - 1)) ELSE s

\* str.strip(): leading and trailing whitespace (tabs included) removed
Strip(s) == RStrip(LStrip(s))

\* str.split(sep) for a one-character sep: always at least one field
RECURSIVE SplitFrom(_, _, _)
SplitFrom(s, sep, cur) ==
    IF s = <<>> THEN <<cur>>
    ELSE IF <<Head(s)>> = sep THEN <<cur>> \o SplitFrom(Tail(s), sep, <<>>)
    ELSE SplitFrom(Tail(s), sep, Append(cur, Head(s)))

Split(s, sep) == SplitFrom(s, sep, <<>>)

\* sep.join(parts)
RECURSIVE Join(_, _)
Join(sep, parts) ==
    IF parts = <<>> THEN <<>>
    ELSE IF Len(parts) = 1 THEN parts[1]
    ELSE parts[1] \o sep \o Join(sep, Tail(parts))

\* value of a run of decimal digits
RECURSIVE DigitsValue(_)
DigitsValue(s) ==
    IF s = <<>> THEN 0
    ELSE 10 * DigitsValue(SubSeq(s, 1, Len(s) - 1)) + (Ord[s[Len(s)]] - Ord["0"])

RECURSIVE Pow10(_)
Pow10(k) == IF k = 0 THEN 1 ELSE 10 * Pow10(k - 1)

AllDigits(s) == \A i \in 1..Len(s) : IsDigit(s[i])

\* float(text) on plain decimal literals: [ws][+-]digits[.digits][ws];
\* anything else raises ValueError
ParseFloat(text) ==
    LET s    == Strip(text)
        neg  == s # <<>> /\ s[1] = "-"
        body == IF s # <<>> /\ s[1] \in {"+", "-"} THEN Tail(s) ELSE s
        p    == Split(body, DOT)
        ip   == p[1]
        fp   == IF Len(p) = 2 THEN p[2] ELSE <<>>
        mag  == Rat(DigitsValue(ip) * Pow10(Len(fp)) + DigitsValue(fp), Pow10(Len(fp)))
    IN  IF Len(p) > 2 \/ ~AllDigits(ip) \/ ~AllDigits(fp) \/ Len(ip) + Len(fp) = 0
        THEN ValueError
        ELSE IF neg THEN RSub(R(0), mag) ELSE mag

\* int(text): [ws][+-]digits[ws]; anything else raises ValueError
ParseInt(text) ==
    LET s    == Strip(text)
        neg  == s # <<>> /\ s[1] = "-"
        body == IF s # <<>> /\ s[1] \in {"+", "-"} THEN Tail(s) ELSE s
    IN  IF body = <<>> \/ ~AllDigits(body) THEN ValueError
        ELSE IF neg THEN [int |-> -DigitsValue(body)] ELSE [int |-> DigitsValue(body)]

\* Python's str ordering: lexicographic by character code, a proper prefix first
RECURSIVE StrLess(_, _)
StrLess(a, b) ==
    IF b = <<>> THEN FALSE
    ELSE IF a = <<>> THEN TRUE
    ELSE IF Head(a) # Head(b) THEN Ord[Head(a)] < Ord[Head(b)]
    ELSE StrLess(Tail(a), Tail(b))

StrLe(a, b) == a = b \/ StrLess(a, b)

\* sorted(keys): the keys of a dict in ascending order
RECURSIVE Sorted(_)
Sorted(S) ==
    IF S = {} THEN <<>>
    ELSE LET m == CHOOSE x \in S : \A y \in S : StrLe(x, y)
         IN  <<m>> \o Sorted(S \ {m})

(***************************************************************************)
(* numpy reductions over a non-empty list of values.                       *)
(***************************************************************************)
RECURSIVE Sum(_)
Sum(v) == IF v = <<>> THEN R(0) ELSE RAdd(Head(v), Sum(Tail(v)))

\* np.mean
Mean(v) == RDiv(Sum(v), R(Len(v)))

RECURSIVE Min(_)
Min(v) == IF Len(v) = 1 THEN v[1] ELSE RMin(v[1], Min(Tail(v)))

RECURSIVE Max(_)
Max(v) == IF Len(v) = 1 THEN v[1] ELSE RMax(v[1], Max(Tail(v)))

\* the list without its i-th element
Remove(v, i) == SubSeq(v, 1, i - 1) \o SubSeq(v, i + 1, Len(v))

\* sorted(v) for numbers: repeatedly take the first minimum
RECURSIVE SortNum(_)
SortNum(v) ==
    IF v = <<>> THEN <<>>
    ELSE LET i == CHOOSE k \in 1..Len(v) :
                      /\ \A j \in 1..Len(v) : RLe(v[k], v[j])
                      /\ \A j \in 1..(k - 1) : v[j] # v[k]
         IN  <<v[i]>> \o SortNum(Remove(v, i))

\* np.median: the middle value, or the mean of the two middle values
Median(v) ==
    LET s == SortNum(v)
        n == Len(v)
    IN  IF n % 2 = 1 THEN s[(n + 1) \div 2]
        ELSE RDiv(RAdd(s[n \div 2], s[n \div 2 + 1]), R(2))

\* the radicand of np.std: mean(|x - mean(x)|^2), divisor = count
Variance(v) ==
    LET m == Mean(v)
    IN  Mean([i \in 1..Len(v) |-> RMul(RSub(v[i], m), RSub(v[i], m))])

(***************************************************************************)
(* compute_pronunciation_score.py: gop_to_score.                           *)
(* Each branch of the piecewise mapping is an operator of its own, so that *)
(* the formula of one branch can be evaluated at a neighbouring            *)
(* breakpoint.                                                             *)
(***************************************************************************)
\* diff >= 0
BaselineTop(diff, lo, hi) == hi

\* -2 <= diff < 0
BaselineNear(diff, lo, hi) == RAdd(hi, RMul(RDiv(diff, R(2)), R(10)))

\* -5 <= diff < -2
BaselineMid(diff, lo, hi) == RAdd(R(90), RMul(RDiv(RAdd(diff, R(2)), R(3)), R(40)))

\* diff < -5
BaselineFar(diff, lo, hi) ==
    RMax(RAdd(R(50), RMul(RDiv(RAdd(diff, R(5)), R(5)), R(50))), lo)

\* gop_value >= 0
DirectTop(g, lo, hi) == RAdd(R(90), RMin(RMul(g, R(2)), R(10)))

\* -1 <= gop_value < 0
DirectNear(g, lo, hi) == RAdd(R(80), RMul(RAdd(g, R(1)), R(10)))

\* -3 <= gop_value < -1
DirectMid(g, lo, hi) == RAdd(R(60), RMul(RDiv(RAdd(g, R(1)), R(2)), R(20)))

\* -5 <= gop_value < -3
DirectLow(g, lo, hi) == RAdd(R(40), RMul(RDiv(RAdd(g, R(3)), R(2)), R(20)))

\* gop_value < -5
DirectFar(g, lo, hi) ==
    RMax(RAdd(R(40), RMul(RDiv(RAdd(g, R(5)), R(5)), R(40))), lo)

\* a clamp that forgets the lower bound
ClampUpperOnly(score, lo, hi) == RMin(score, hi)

\* the final max(min(score, max_score), min_score)
Clamp(score, lo, hi) == RMax(RMin(score, hi), lo)

gop_to_score(gop_value, base, lo, hi) ==
    LET diff  == RSub(gop_value, base)
        score ==
            IF base # None
            THEN IF RGe(diff, R(0)) THEN BaselineTop(diff, lo, hi)
                 ELSE IF RGe(diff, R(-2)) THEN BaselineNear(diff, lo, hi)
                 ELSE IF RGe(diff, R(-5)) THEN BaselineMid(diff, lo, hi)
                 ELSE BaselineFar(diff, lo, hi)
            ELSE IF RGe(gop_value, R(0)) THEN DirectTop(gop_value, lo, hi)
                 ELSE IF RGe(gop_value, R(-1)) THEN DirectNear(gop_value, lo, hi)
                 ELSE IF RGe(gop_value, R(-3)) THEN DirectMid(gop_value, lo, hi)
                 ELSE IF RGe(gop_value, R(-5)) THEN DirectLow(gop_value, lo, hi)
                 ELSE DirectFar(gop_value, lo, hi)
    IN  Clamp(score, lo, hi)

\* a grade ladder whose band boundaries are exclusive
GradeExclusive(score) ==
    IF RLt(R(90), score) THEN "Excellent"
    ELSE IF RLt(R(80), score) THEN "Good"
    ELSE IF RLt(R(70), score) THEN "Fair"
    ELSE IF RLt(R(60), score) THEN "Needs Improvement"
    ELSE "Poor"

\* the grade ladder of the report's write loop
Grade(score) ==
    IF RGe(score, R(90)) THEN "Excellent"
    ELSE IF RGe(score, R(80)) THEN "Good"
    ELSE IF RGe(score, R(70)) THEN "Fair"
    ELSE IF RGe(score, R(60)) THEN "Needs Improvement"
    ELSE "Poor"

(***************************************************************************)
(* Inputs of compute_pronunciation_score.py.                               *)
(***************************************************************************)
utt1 == <<"u", "t", "t", "1">>

utt2 == <<"u", "t", "t", "2">>

utt10 == <<"u", "t", "t", "1", "0">>

\* the text of the GOP values fed to the normalizer: the breakpoints of both
\* modes, a value inside every branch, and a value far below the last one
GopTextHigh == {<<"0">>, <<"0", ".", "5">>, <<"6">>, <<"-", "0", ".", "5">>, <<"-", "1">>}

GopTextLow ==
    {<<"-", "2">>, <<"-", "3">>, <<"-", "4">>, <<"-", "5">>, <<"-", "6">>,
     <<"-", "1", "0", "0">>}

\* a line of the utterance score table, as `for line in f` yields it
TableLine(utt, gop, n) == utt \o TAB \o gop \o TAB \o n \o NL

ScoreLines ==
    {TableLine(utt2, g, <<"3">>) : g \in GopTextHigh}
        \cup {TableLine(utt1, g, <<"2">>) : g \in GopTextLow}
        \cup { NL,                                   \* an empty line
               utt1 \o NL,                           \* one field
               utt1 \o TAB \o NL,                    \* a key and an empty value
               TAB \o utt10 \o TAB \o <<"0">> \o NL, \* an empty key field first
               utt10 \o TAB \o <<"-", "1">> \o NL,   \* no phone count
               utt1 \o TAB \o <<"x">> \o NL,         \* a value that is no number
               TableLine(utt1, <<"0">>, <<"x">>) }   \* a count that is no number

\* --baseline: absent, or the native-speaker reference -1.0
Baselines == {None, R(-1)}

\* (--min-score, --max-score): the defaults and three other settings
ScoreBounds == {<<R(0), R(100)>>, <<R(20), R(80)>>, <<R(95), R(120)>>, <<R(60), R(40)>>}

\* the sequences over S of length at most n
SeqsUpTo(S, n) == UNION {[1..k -> S] : k \in 0..n}

(***************************************************************************)
(* compute_pronunciation_score.py: main.                                   *)
(***************************************************************************)
Header == [kind |-> "header"]

\* the report row of one result (the f-string of the write loop)
ReportRow(r) ==
    [kind |-> "row", utt_id |-> r.utt_id, gop_score |-> r.gop_score,
     pronunciation_score |-> r.pronunciation_score, num_phones |-> r.num_phones,
     grade |-> Grade(r.pronunciation_score)]

\* a reader that also skips the lines of two fields
TooShortOfThree(parts) == Len(parts) < 3

\* len(parts) < 2: the line is skipped
TooShort(parts) == Len(parts) < 2

\* a result list built newest first
AddResultFront(rs, r) == <<r>> \o rs

\* where the loop over results appends a new result
AddResult(rs, r) == Append(rs, r)

\* one iteration of `for line in f`
ScoreReadLine ==
    /\ prog = "score" /\ pc = "read" /\ pos < Len(input)
    /\ LET parts == Split(Strip(input[pos + 1]), TAB)
           gop   == ParseFloat(parts[2])
           num   == IF Len(parts) > 2 THEN ParseInt(parts[3]) ELSE [int |-> 0]
       IN  IF TooShort(parts)
           THEN /\ pos' = pos + 1
                /\ UNCHANGED <<pc, results>>
           ELSE IF gop = ValueError \/ num = ValueError
           THEN \* except Exception: sys.exit(1)
                /\ pc' = "failed"
                /\ UNCHANGED <<pos, results>>
           ELSE /\ pos' = pos + 1
                /\ results' = AddResult(results,
                       [utt_id |-> parts[1], gop_score |-> gop,
                        pronunciation_score |->
                            gop_to_score(gop, baseline, min_score, max_score),
                        num_phones |-> num.int])
                /\ pc' = pc
    /\ UNCHANGED <<prog, method, baseline, min_score, max_score, input,
                   utterance_scores, scores, todo, out>>

\* end of input: the output is opened and the header written
ScoreOpenOutput ==
    /\ prog = "score" /\ pc = "read" /\ pos = Len(input)
    /\ pc' = "write"
    /\ out' = <<Header>>
    /\ todo' = results
    /\ UNCHANGED <<prog, method, baseline, min_score, max_score, input, pos,
                   results, utterance_scores, scores>>

\* one iteration of `for r in results`
ScoreWriteRow ==
    /\ prog = "score" /\ pc = "write" /\ todo # <<>>
    /\ out' = Append(out, ReportRow(Head(todo)))
    /\ todo' = Tail(todo)
    /\ UNCHANGED <<prog, pc, method, baseline, min_score, max_score, input, pos,
                   results, utterance_scores, scores>>

\* the trailing summary block, then the end of the run
ScoreWriteSummary ==
    /\ prog = "score" /\ pc = "write" /\ todo = <<>>
    /\ out' = IF Len(results) > 0
              THEN Append(out,
                       [kind |-> "summary",
                        avg_gop |-> Mean([i \in 1..Len(results) |-> results[i].gop_score]),
                        avg_pron |-> Mean([i \in 1..Len(results) |->
                                              results[i].pronunciation_score])])
              ELSE out
    /\ pc' = "done"
    /\ UNCHANGED <<prog, method, baseline, min_score, max_score, input, pos,
                   results, utterance_scores, scores, todo>>

InitScore ==
    /\ prog = "score"
    /\ pc = "read"
    /\ method = None
    /\ baseline \in Baselines
    /\ \E b \in ScoreBounds : min_score = b[1] /\ max_score = b[2]
    /\ input \in SeqsUpTo(ScoreLines, MaxScoreLines)
    /\ pos = 0
    /\ results = <<>>
    /\ utterance_scores = <<>>
    /\ scores = <<>>
    /\ todo = <<>>
    /\ out = <<>>

NextScore == ScoreReadLine \/ ScoreOpenOutput \/ ScoreWriteRow \/ ScoreWriteSummary

SpecScore == InitScore /\ [][NextScore]_vars

(***************************************************************************)
(* A Python dict: its entries in insertion order.  Assigning to a key that *)
(* is present replaces the value in place; a new key goes to the end.      *)
(***************************************************************************)
Keys(d) == [i \in 1..Len(d) |-> d[i].key]

KeySet(d) == {d[i].key : i \in 1..Len(d)}

Get(d, k) == d[CHOOSE i \in 1..Len(d) : d[i].key = k].val

Put(d, k, v) ==
    IF k \in KeySet(d)
    THEN [i \in 1..Len(d) |-> IF d[i].key = k THEN [key |-> k, val |-> v] ELSE d[i]]
    ELSE Append(d, [key |-> k, val |-> v])

\* for key in d.keys(): the insertion order, without sorted()
InsertionOrder(d) == Keys(d)

\* for key in sorted(d.keys())
WriteOrder(d) == Sorted(KeySet(d))

(***************************************************************************)
(* aggregate_ml_scores.py                                                  *)
(***************************************************************************)
\* a line of the phone score file: phone_key, score, phone_id
PhoneLine(k, v, ph) == k \o TAB \o v \o TAB \o ph \o NL

PhoneLines ==
    { PhoneLine(utt1 \o DOT \o <<"0">>, <<"0", ".", "5">>, <<"5">>),
      PhoneLine(utt1 \o DOT \o <<"1">>, <<"-", "0", ".", "5">>, <<"6">>),
      PhoneLine(utt2 \o DOT \o <<"0">>, <<"1", ".", "0">>, <<"5">>),
      PhoneLine(utt1 \o DOT \o <<"2">>, <<"-", "2">>, <<"7">>),
      utt10 \o DOT \o <<"0">> \o TAB \o <<"-", "1">> \o NL,      \* no phone id
      <<"a", ".", "b", ".", "0">> \o TAB \o <<"2">> \o NL,       \* utterance "a.b"
      utt2 \o DOT \o <<"1">> \o NL,                              \* one field
      utt2 \o DOT \o <<"1">> \o TAB \o NL,                       \* empty value
      utt1 \o DOT \o <<"3">> \o TAB \o <<"x">> \o NL }           \* no number

MlMethods == {"mean", "median", "min", "max"}

\* '.'.join(phone_key.split('.')[:-1])
UttId(phone_key) ==
    LET segs == Split(phone_key, DOT)
    IN  Join(DOT, SubSeq(segs, 1, Len(segs) - 1))

\* the grouping step for one parsed line
MlGroup(us, utt_id, score) ==
    Put(us, utt_id, Append(IF utt_id \in KeySet(us) THEN Get(us, utt_id) ELSE <<>>, score))

MlAggregate(v, m) ==
    CASE m = "mean" -> Mean(v)
      [] m = "median" -> Median(v)
      [] m = "min" -> Min(v)
      [] m = "max" -> Max(v)

\* the output row of one utterance
MlRow(utt_id, v, m) ==
    [utt_id |-> utt_id, agg_score |-> MlAggregate(v, m), num_phones |-> Len(v),
     min_score |-> Min(v), max_score |-> Max(v), std_score |-> Variance(v)]

\* the body of `for line in f` on one line: the grouping after it, or the
\* ValueError float() raised
MlAfterLine(us, line) ==
    LET parts == Split(Strip(line), TAB)
        score == ParseFloat(parts[2])
    IN  IF TooShort(parts) THEN [raised |-> FALSE, us |-> us]
        ELSE IF score = ValueError THEN [raised |-> TRUE, us |-> us]
        ELSE [raised |-> FALSE, us |-> MlGroup(us, UttId(parts[1]), score)]

\* one iteration of `for line in f`
MlReadLine ==
    /\ prog = "ml" /\ pc = "read" /\ pos < Len(input)
    /\ LET r == MlAfterLine(utterance_scores, input[pos + 1])
       IN  IF r.raised
           THEN \* the exception is not caught: the script ends with a traceback
                /\ pc' = "failed"
                /\ UNCHANGED <<pos, utterance_scores>>
           ELSE /\ pos' = pos + 1
                /\ utterance_scores' = r.us
                /\ pc' = pc
    /\ UNCHANGED <<prog, method, baseline, min_score, max_score, input,
                   results, scores, todo, out>>

\* the whole read loop over a list of lines
RECURSIVE MlReadAll(_, _)
MlReadAll(lines, us) ==
    IF lines = <<>> THEN [raised |-> FALSE, us |-> us]
    ELSE LET r == MlAfterLine(us, Head(lines))
         IN  IF r.raised THEN r ELSE MlReadAll(Tail(lines), r.us)

\* main as a function of the input file: the table written, or the failure
MlTable(lines, m) ==
    LET r     == MlReadAll(lines, <<>>)
        order == WriteOrder(r.us)
    IN  IF r.raised THEN [raised |-> TRUE, rows |-> <<>>]
        ELSE [raised |-> FALSE,
              rows |-> [i \in 1..Len(order) |-> MlRow(order[i], Get(r.us, order[i]), m)]]

\* end of input: the output file is opened and the keys are sorted
MlOpenOutput ==
    /\ prog = "ml" /\ pc = "read" /\ pos = Len(input)
    /\ pc' = "write"
    /\ out' = <<>>
    /\ todo' = WriteOrder(utterance_scores)
    /\ UNCHANGED <<prog, method, baseline, min_score, max_score, input, pos,
                   results, utterance_scores, scores>>

\* one iteration of `for utt_id in sorted(...)`
MlWriteRow ==
    /\ prog = "ml" /\ pc = "write" /\ todo # <<>>
    /\ out' = Append(out, MlRow(Head(todo), Get(utterance_scores, Head(todo)), method))
    /\ todo' = Tail(todo)
    /\ UNCHANGED <<prog, pc, method, baseline, min_score, max_score, input, pos,
                   results, utterance_scores, scores>>

MlFinish ==
    /\ prog = "ml" /\ pc = "write" /\ todo = <<>>
    /\ pc' = "done"
    /\ UNCHANGED <<prog, method, baseline, min_score, max_score, input, pos,
                   results, utterance_scores, scores, todo, out>>

InitMl ==
    /\ prog = "ml"
    /\ pc = "read"
    /\ method \in MlMethods
    /\ baseline = None
    /\ min_score = R(0)
    /\ max_score = R(100)
    /\ input \in SeqsUpTo(PhoneLines, MaxPhoneLines)
    /\ pos = 0
    /\ results = <<>>
    /\ utterance_scores = <<>>
    /\ scores = <<>>
    /\ todo = <<>>
    /\ out = <<>>

NextMl == MlReadLine \/ MlOpenOutput \/ MlWriteRow \/ MlFinish

SpecMl == InitMl /\ [][NextMl]_vars

\* the two flat-format readers together
InitFlat == InitScore \/ InitMl

NextFlat == NextScore \/ NextMl

SpecFlat == InitFlat /\ [][NextFlat]_vars

(***************************************************************************)
(* aggregate_utterance_scores.py                                           *)
(* kaldi_io.read_post_scp yields (key, gops), gops a list of frames that   *)
(* hold one (phone id, GOP value) pair each.                               *)
(***************************************************************************)
Q(n, d) == Rat(n, d)

Frame(ph, gop) == [ph |-> ph, gop |-> gop]

Post(key, gops) == [key |-> key, gops |-> gops]

PostRecords ==
    { Post(utt1, <<Frame(0, R(1)), Frame(5, R(-2)), Frame(1, R(3))>>),
      Post(utt2, <<Frame(0, Q(1, 2)), Frame(1, R(0)), Frame(2, R(-1))>>),  \* silence only
      Post(utt2, <<>>),                                                    \* no frames
      Post(utt2, <<Frame(5, R(0)), Frame(6, R(0))>>),                      \* all zero
      Post(utt10, <<Frame(5, R(-2)), Frame(0, R(4)), Frame(6, R(-2))>>),   \* all equal
      Post(utt1, <<Frame(5, R(1)), Frame(6, R(-3))>>),
      Post(utt10, <<Frame(3, Q(1, 2)), Frame(2, R(-9)), Frame(4, Q(-1, 2)), Frame(7, R(2))>>),
      Post(utt1, <<Frame(2, R(-5)), Frame(1, R(1))>>) }                    \* silence only

AggMethods == {"mean", "median", "min", "weighted"}

\* args.skip_silence: store_true with default=True, so always on
skip_silence == TRUE

\* a filter that knows phone 0 only
IsSkippedZeroOnly(ph) == skip_silence /\ ph \in {0}

\* `if args.skip_silence and ph in [0, 1, 2]: continue`
IsSkipped(ph) == skip_silence /\ ph \in {0, 1, 2}

\* the loop that extracts gop_values from the frames of one record
RECURSIVE GopValues(_)
GopValues(gops) ==
    IF gops = <<>> THEN <<>>
    ELSE IF IsSkipped(Head(gops).ph) THEN GopValues(Tail(gops))
    ELSE <<Head(gops).gop>> \o GopValues(Tail(gops))

\* a loop without the empty-group check
NoValidValuesUnchecked(gop_values) == FALSE

\* `if len(gop_values) == 0`: the utterance is skipped with a warning
NoValidValues(gop_values) == Len(gop_values) = 0

\* np.abs over a list
AbsAll(v) == [i \in 1..Len(v) |-> RAbs(v[i])]

\* np.average(v, weights=w): raises ZeroDivisionError when the weights sum to zero
Average(v, w) ==
    IF Sum(w) = R(0) THEN ZeroDivisionError
    ELSE RDiv(Sum([i \in 1..Len(v) |-> RMul(v[i], w[i])]), Sum(w))

\* a guard written >= 0
WeightsNonNegative(weights) == RLe(R(0), Sum(weights))

\* `if np.sum(weights) > 0`
WeightsUsable(weights) == RLt(R(0), Sum(weights))

AggAggregate(v, m) ==
    CASE m = "mean" -> Mean(v)
      [] m = "median" -> Median(v)
      [] m = "min" -> Min(v)
      [] m = "weighted" ->
            IF WeightsUsable(AbsAll(v)) THEN Average(v, AbsAll(v)) ELSE Mean(v)

\* the dict stored in scores[key]
AggSummary(v, m) ==
    [score |-> AggAggregate(v, m), num_phones |-> Len(v),
     min_gop |-> Min(v), max_gop |-> Max(v), std_gop |-> Variance(v)]

\* the output row of one key
AggRow(key, s) ==
    [key |-> key, score |-> s.score, num_phones |-> s.num_phones,
     min_gop |-> s.min_gop, max_gop |-> s.max_gop, std_gop |-> s.std_gop]

\* one iteration of `for key, gops in kaldi_io.read_post_scp(...)`
AggReadRecord ==
    /\ prog = "agg" /\ pc = "read" /\ pos < Len(input)
    /\ LET key        == input[pos + 1].key
           gop_values == GopValues(input[pos + 1].gops)
       IN  IF NoValidValues(gop_values)
           THEN /\ pos' = pos + 1
                /\ UNCHANGED <<pc, scores>>
           ELSE IF gop_values = <<>>
           THEN \* np.min of an empty list raises ValueError: sys.exit(1)
                /\ pc' = "failed"
                /\ UNCHANGED <<pos, scores>>
           ELSE IF AggAggregate(gop_values, method) = ZeroDivisionError
           THEN \* except Exception: sys.exit(1)
                /\ pc' = "failed"
                /\ UNCHANGED <<pos, scores>>
           ELSE /\ pos' = pos + 1
                /\ scores' = Put(scores, key, AggSummary(gop_values, method))
                /\ pc' = pc
    /\ UNCHANGED <<prog, method, baseline, min_score, max_score, input,
                   results, utterance_scores, todo, out>>

\* end of input: the output file is opened and the keys are sorted
AggOpenOutput ==
    /\ prog = "agg" /\ pc = "read" /\ pos = Len(input)
    /\ pc' = "write"
    /\ out' = <<>>
    /\ todo' = WriteOrder(scores)
    /\ UNCHANGED <<prog, method, baseline, min_score, max_score, input, pos,
                   results, utterance_scores, scores>>

\* one iteration of `for key in sorted(scores.keys())`
AggWriteRow ==
    /\ prog = "agg" /\ pc = "write" /\ todo # <<>>
    /\ out' = Append(out, AggRow(Head(todo), Get(scores, Head(todo))))
    /\ todo' = Tail(todo)
    /\ UNCHANGED <<prog, pc, method, baseline, min_score, max_score, input, pos,
                   results, utterance_scores, scores>>

AggFinish ==
    /\ prog = "agg" /\ pc = "write" /\ todo = <<>>
    /\ pc' = "done"
    /\ UNCHANGED <<prog, method, baseline, min_score, max_score, input, pos,
                   results, utterance_scores, scores, todo, out>>

InitAgg ==
    /\ prog = "agg"
    /\ pc = "read"
    /\ method \in AggMethods
    /\ baseline = None
    /\ min_score = R(0)
    /\ max_score = R(100)
    /\ input \in SeqsUpTo(PostRecords, MaxRecords)
    /\ pos = 0
    /\ results = <<>>
    /\ utterance_scores = <<>>
    /\ scores = <<>>
    /\ todo = <<>>
    /\ out = <<>>

NextAgg == AggReadRecord \/ AggOpenOutput \/ AggWriteRow \/ AggFinish

SpecAgg == InitAgg /\ [][NextAgg]_vars

\* a run of any one of the three scripts
Init == InitScore \/ InitMl \/ InitAgg

Next == NextScore \/ NextMl \/ NextAgg

Spec == Init /\ [][Next]_vars

(***************************************************************************)
(* Properties of the normalizer and of the report.                         *)
(***************************************************************************)
DefaultBounds == min_score = R(0) /\ max_score = R(100)

Between(lo, x, hi) == RLe(lo, x) /\ RLe(x, hi)

\* the rows of the report written so far, without header and summary
Rows == SelectSeq(out, LAMBDA o : o.kind = "row")

\* the input lines the reader does not skip
KeptLines == SelectSeq(input, LAMBDA l : Len(Split(Strip(l), TAB)) >= 2)

\* C1: with the default bounds, the score computed at every breakpoint (raw =
\* 0, -1, -3, -5 without baseline; diff = 0, -2, -5 with one) equals the
\* value the formula of the adjoining lower branch gives at that breakpoint.
C1_ContinuousAtBreakpoints ==
    (prog = "score" /\ DefaultBounds) =>
        \A i \in 1..Len(results) :
            LET g    == results[i].gop_score
                s    == results[i].pronunciation_score
                diff == RSub(g, baseline)
            IN  IF baseline = None
                THEN /\ g = R(0)  => s = Clamp(DirectNear(g, min_score, max_score), min_score, max_score)
                     /\ g = R(-1) => s = Clamp(DirectMid(g, min_score, max_score), min_score, max_score)
                     /\ g = R(-3) => s = Clamp(DirectLow(g, min_score, max_score), min_score, max_score)
                     /\ g = R(-5) => s = Clamp(DirectFar(g, min_score, max_score), min_score, max_score)
                ELSE /\ diff = R(0)  => s = Clamp(BaselineNear(diff, min_score, max_score), min_score, max_score)
                     /\ diff = R(-2) => s = Clamp(BaselineMid(diff, min_score, max_score), min_score, max_score)
                     /\ diff = R(-5) => s = Clamp(BaselineFar(diff, min_score, max_score), min_score, max_score)

\* C2: without baseline and with the default bounds, the score lies in the
\* range the calibration table gives for the branch of raw: [90,100] for
\* raw >= 0, [80,90] for -1 <= raw < 0, [60,80] for -3 <= raw < -1, [40,60]
\* for -5 <= raw < -3, [0,40] for raw < -5.
C2_ScoreInBranchRange ==
    (prog = "score" /\ DefaultBounds /\ baseline = None) =>
        \A i \in 1..Len(results) :
            LET g == results[i].gop_score
                s == results[i].pronunciation_score
            IN  IF RGe(g, R(0)) THEN Between(R(90), s, R(100))
                ELSE IF RGe(g, R(-1)) THEN Between(R(80), s, R(90))
                ELSE IF RGe(g, R(-3)) THEN Between(R(60), s, R(80))
                ELSE IF RGe(g, R(-5)) THEN Between(R(40), s, R(60))
                ELSE Between(R(0), s, R(40))

\* C3: whenever min_score <= max_score, every quality score computed lies in
\* [min_score, max_score], for every raw value and with or without baseline;
\* and raw = -100 without baseline and with min_score = 0 gives exactly 0.
C3_ScoreWithinBounds ==
    (prog = "score" /\ RLe(min_score, max_score)) =>
        \A i \in 1..Len(results) :
            /\ Between(min_score, results[i].pronunciation_score, max_score)
            /\ (baseline = None /\ min_score = R(0) /\ results[i].gop_score = R(-100))
                   => results[i].pronunciation_score = R(0)

\* C3 witness: raw = -100 was scored without baseline under the default
\* bounds and got exactly 0.
C3_Witness ==
    /\ prog = "score" /\ DefaultBounds /\ baseline = None
    /\ \E i \in 1..Len(results) :
           results[i].gop_score = R(-100) /\ results[i].pronunciation_score = R(0)

C5_ReportSortedById ==
    prog = "score" =>
        \A i, j \in 1..Len(Rows) : i < j => StrLe(Rows[i].utt_id, Rows[j].utt_id)

\* C5 (amended): the finished report lists one row per input line that was
\* not skipped, in the order in which the lines were read.
C5_ReportInInputOrder ==
    (prog = "score" /\ pc = "done") =>
        /\ Len(Rows) = Len(KeptLines)
        /\ \A i \in 1..Len(Rows) :
               Rows[i].utt_id = Split(Strip(KeptLines[i]), TAB)[1]

\* C5 witness: a finished report whose two rows follow the input order
\* utt2, utt1 and are therefore not ascending.
C5_Witness ==
    /\ prog = "score" /\ pc = "done"
    /\ Len(Rows) = 2 /\ Rows[1].utt_id = utt2 /\ Rows[2].utt_id = utt1

(***************************************************************************)
(* Properties of aggregate_utterance_scores.py.                            *)
(***************************************************************************)
\* the values of the frames of a record whose phone id is not 0, 1 or 2
ScoredValues(rec) ==
    LET kept == SelectSeq(rec.gops, LAMBDA f : f.ph \notin {0, 1, 2})
    IN  [i \in 1..Len(kept) |-> kept[i].gop]

\* the record behind the entry of `key`: the last record read with that key
\* that has a scored value
SourceRecord(key) ==
    input[CHOOSE i \in 1..pos :
              /\ input[i].key = key /\ ScoredValues(input[i]) # <<>>
              /\ \A j \in (i + 1)..pos :
                     ~(input[j].key = key /\ ScoredValues(input[j]) # <<>>)]

HasSourceRecord(key) ==
    \E i \in 1..pos : input[i].key = key /\ ScoredValues(input[i]) # <<>>

\* sum(v * |v|) / sum(|v|)
SelfWeighted(v) ==
    RDiv(Sum([i \in 1..Len(v) |-> RMul(v[i], RAbs(v[i]))]), Sum([i \in 1..Len(v) |-> RAbs(v[i])]))

\* C6: for every utterance and method, the aggregate, phone_count, min, max
\* and stddev stored and written are those of exactly the entries whose
\* phone id is not in {0,1,2}.
C6_SilenceNeverCounted ==
    prog = "agg" =>
        /\ \A k \in KeySet(scores) :
               /\ HasSourceRecord(k)
               /\ LET v == ScoredValues(SourceRecord(k))
                      s == Get(scores, k)
                  IN  /\ s.num_phones = Len(v)
                      /\ s.min_gop = Min(v)
                      /\ s.max_gop = Max(v)
                      /\ s.std_gop = Variance(v)
                      /\ method = "mean" => s.score = Mean(v)
                      /\ method = "median" => s.score = Median(v)
                      /\ method = "min" => s.score = Min(v)
                      /\ method = "weighted" =>
                             s.score = IF Sum(AbsAll(v)) = R(0) THEN Mean(v)
                                       ELSE SelfWeighted(v)
        /\ \A i \in 1..Len(out) :
               /\ out[i].key \in KeySet(scores)
               /\ out[i] = AggRow(out[i].key, Get(scores, out[i].key))

\* C6 witness: the record (0,1.0),(5,-2.0),(1,3.0) of utt1 was written as a
\* row with phone_count = 1 and min = max = -2.
C6_Witness ==
    /\ prog = "agg" /\ pc = "done"
    /\ \E i \in 1..Len(out) :
           /\ out[i].key = utt1
           /\ SourceRecord(utt1).gops = <<Frame(0, R(1)), Frame(5, R(-2)), Frame(1, R(3))>>
           /\ out[i].num_phones = 1
           /\ out[i].min_gop = R(-2) /\ out[i].max_gop = R(-2)
           /\ out[i].score = R(-2) /\ out[i].std_gop = R(0)

\* the utterance ids of the input that have at least one non-silence entry
ScoredKeys == {input[i].key : i \in {j \in 1..Len(input) : ScoredValues(input[j]) # <<>>}}

\* C7: a record without a non-silence entry is skipped and does not end the
\* run: the run never fails, every record read is consumed, and the
\* finished output has one row for exactly the utterance ids with a
\* non-silence entry; every row has phone_count >= 1.
C7_EmptyGroupSkipped ==
    prog = "agg" =>
        /\ pc # "failed"
        /\ pc \in {"write", "done"} => pos = Len(input)
        /\ \A i \in 1..Len(out) : out[i].num_phones >= 1
        /\ pc = "done" =>
               /\ {out[i].key : i \in 1..Len(out)} = ScoredKeys
               /\ Len(out) = Cardinality(ScoredKeys)

\* C7 witness: a finished run that read a silence-only record of utt2 and a
\* scored record of another utterance, and wrote no row for utt2.
C7_Witness ==
    /\ prog = "agg" /\ pc = "done"
    /\ \E i \in 1..Len(input) : input[i].key = utt2 /\ ScoredValues(input[i]) = <<>>
                                    /\ input[i].gops # <<>>
    /\ Len(out) >= 1
    /\ \A i \in 1..Len(out) : out[i].key # utt2

\* C8: the weighted method never divides by zero: the run never fails; when
\* the absolute values sum to zero the score is the arithmetic mean, 0;
\* otherwise it is sum(v*|v|)/sum(|v|), which is the mean when all values
\* are equal.
C8_WeightedNoDivisionByZero ==
    (prog = "agg" /\ method = "weighted") =>
        /\ pc # "failed"
        /\ \A k \in KeySet(scores) :
               HasSourceRecord(k) =>
                   LET v == ScoredValues(SourceRecord(k))
                       s == Get(scores, k).score
                   IN  IF Sum(AbsAll(v)) = R(0)
                       THEN s = Mean(v) /\ s = R(0)
                       ELSE /\ s = SelfWeighted(v)
                            /\ (\A i \in 1..Len(v) : v[i] = v[1]) => s = Mean(v)

\* C8 witness: the weighted run stored score 0 for a record whose scored
\* values are all zero.
C8_Witness ==
    /\ prog = "agg" /\ method = "weighted" /\ pc = "done"
    /\ utt2 \in KeySet(scores)
    /\ LET v == ScoredValues(SourceRecord(utt2))
       IN  Len(v) = 2 /\ (\A i \in 1..Len(v) : v[i] = R(0))
    /\ Get(scores, utt2).score = R(0)

(***************************************************************************)
(* Properties of the flat-format readers and of aggregate_ml_scores.py.    *)
(***************************************************************************)
\* the fields the reader sees: the stripped line, split at tabs
Parts(line) == Split(Strip(line), TAB)

\* the tab-separated fields of the line as it stands in the file
RawFields(line) ==
    LET text == IF line # <<>> /\ line[Len(line)] = "\n"
                THEN SubSeq(line, 1, Len(line) - 1) ELSE line
    IN  Split(text, TAB)

\* the lines consumed so far that the reader did not skip
KeptConsumed == SelectSeq(SubSeq(input, 1, pos), LAMBDA l : Len(Parts(l)) >= 2)

\* C9 (as claimed): counting the tab-separated fields of the line, no line
\* with at least 2 fields and a value field that is no number is ever
\* consumed (it aborts the run), and an aborted run has written no row.
C9_UnparsedValueAborts ==
    prog \in {"score", "ml"} =>
        /\ \A i \in 1..pos :
               LET f == RawFields(input[i])
               IN  Len(f) >= 2 => ParseFloat(f[2]) # ValueError
        /\ pc = "failed" => out = <<>>

\* C9 (amended): counting the fields of the line after strip() removed its
\* leading and trailing whitespace (tabs included): a line with fewer than 2
\* fields is skipped and leaves the state what the other lines make it; a
\* line with at least 2 fields whose value is no number is never consumed,
\* the run fails at it; nothing is written before every line was read, so a
\* failed run has written no row.
C9_SkipShortAbortUnparsed ==
    prog \in {"score", "ml"} =>
        /\ \A i \in 1..pos :
               LET f == Parts(input[i])
               IN  Len(f) >= 2 => ParseFloat(f[2]) # ValueError
        /\ pc = "failed" =>
               /\ pos < Len(input)
               /\ Len(Parts(input[pos + 1])) >= 2
               /\ prog = "ml" => ParseFloat(Parts(input[pos + 1])[2]) = ValueError
               /\ out = <<>>
        /\ pc = "done" =>
               \A i \in 1..Len(input) :
                   LET f == Parts(input[i])
                   IN  Len(f) >= 2 => ParseFloat(f[2]) # ValueError
        /\ out # <<>> => pos = Len(input)
        /\ prog = "score" =>
               /\ Len(results) = Len(KeptConsumed)
               /\ \A i \in 1..Len(results) :
                      /\ results[i].utt_id = Parts(KeptConsumed[i])[1]
                      /\ results[i].gop_score = ParseFloat(Parts(KeptConsumed[i])[2])
        /\ prog = "ml" =>
               /\ utterance_scores = MlReadAll(KeptConsumed, <<>>).us
               /\ pc = "done" => out = MlTable(KeptLines, method).rows

\* C9 witness: a run that skipped the line "utt..<TAB>" (two tab-separated
\* fields, one after strip) and then failed at a line whose value is no
\* number, with nothing written.
C9_Witness ==
    /\ prog \in {"score", "ml"} /\ pc = "failed" /\ pos = 1
    /\ Len(RawFields(input[1])) = 2 /\ Len(Parts(input[1])) = 1
    /\ Len(Parts(input[2])) >= 2 /\ ParseFloat(Parts(input[2])[2]) = ValueError
    /\ out = <<>>

\* the input with its lines rearranged by p
Permuted(p) == [i \in 1..Len(input) |-> input[p[i]]]

====
